---- MODULE Spec2Model ----
(***************************************************************************)
(* Canvas -> Notion sync pass (src/main.py).                               *)
(*                                                                         *)
(* One run of the script is: load the set of Canvas ids already in the     *)
(* Notion data source (paged query), read the clock, walk the active       *)
(* courses and their upcoming assignments, and create one Notion page per  *)
(* assignment that is mapped, due within the next seven days and not in    *)
(* the id set.  The Notion data source (store) is the only state shared    *)
(* between runs; everything else is local to a run.                        *)
(*                                                                         *)
(* Steps are cut at the remote calls: one query call, one course of the    *)
(* outer loop, one assignment of the inner loop (with its create call).    *)
(* The test `canvas_id in existing_canvas_ids` reads only run-local state, *)
(* so taking it together with the create call loses no interleaving.       *)
(*                                                                         *)
(* The two remote services are outside the repository.  They are taken to  *)
(* behave as documented: a query returns the next page_size records after  *)
(* the cursor and has_more exactly when records remain; a create call      *)
(* either appends the page and returns, or raises and appends nothing;     *)
(* course and assignment enumeration does not raise.                       *)
(***************************************************************************)
EXTENDS Integers, Sequences, FiniteSets, TLC

VARIABLES
    store,      \* the Notion data source: sequence of pages, oldest first
    clock,      \* wall clock, seconds (datetime.now never goes back)
    source,     \* Canvas: the active courses with their upcoming assignments
    pc,         \* pc[r]: where run r is
    ids,        \* ids[r]: fetch_existing_canvas_ids.ids, then existing_canvas_ids
    cursor,     \* cursor[r]: start_cursor of the next query (0 is None)
    batch,      \* batch[r]: query calls made so far
    baseline,   \* baseline[r]: the set fetch_existing_canvas_ids returned
    now,        \* now[r]: the instant read at line 107
    ci,         \* ci[r]: courses taken from the courses iterator
    ai,         \* ai[r]: assignments taken from the current assignments iterator
    log         \* log[r]: what run r has logged, in order

vars == <<store, clock, source, pc, ids, cursor, batch, baseline, now, ci, ai,
         log>>

----------------------------------------------------------------------------
(* Bounds of the model *)

NumRuns == 2          \* runs of the script
MaxStore == 250       \* largest pre-existing data source
MaxCourses == 2       \* courses Canvas returns
MaxItems == 3         \* assignments Canvas returns, over all courses
MaxDrift == 1         \* seconds the clock may advance over the whole behaviour

(* Program constants *)

PageSize == 100       \* page_size=100
WindowDays == 7       \* timedelta(days=7)

Runs == 1..NumRuns
WeekSeconds == WindowDays * 24 * 60 * 60

----------------------------------------------------------------------------
(* Canvas side *)

\* privVars.name_map: course name -> Notion "Class" label
name_map == ("Math" :> "MATH") @@ ("Physics" :> "PHYS")

CourseNames == {"Math", "Art"}
AssignmentIds == {1, 2}

\* assignment.due_at is None or an ISO-8601 UTC string; has = FALSE is None
NoDue == [has |-> FALSE, secs |-> 0]
DueAt(t) == [has |-> TRUE, secs |-> t]
DueValues == {NoDue, DueAt(0), DueAt(WeekSeconds + 1)}

\* datetime.fromisoformat(due_at.replace("Z", "+00:00")): the instant named
ParseDue(d) == d.secs

\* str(assignment.id)
Str(n) == ToString(n)

Assignments == [id : AssignmentIds, due_at : DueValues]

SeqsUpTo(S, n) == UNION {[1..k -> S] : k \in 0..n}

\* the course lists Canvas may return: k courses, at most m assignments in all
RECURSIVE SourcesOf(_, _)
SourcesOf(k, m) ==
    IF k = 0 THEN {<<>>}
    ELSE UNION { { <<[name |-> nm, assignments |-> as]>> \o rest :
                     rest \in SourcesOf(k - 1, m - Len(as)) } :
                 nm \in CourseNames, as \in SeqsUpTo(Assignments, m) }

Sources == UNION {SourcesOf(k, MaxItems) : k \in 0..MaxCourses}

\* the course lists with one assignment at most
ShortSources == SourcesOf(0, 0) \cup SourcesOf(1, 1)

----------------------------------------------------------------------------
(* Notion side *)

\* A page of the data source, reduced to its "Canvas ID" property:
\* has = FALSE when the page has no such property, rich_text its text runs
\* (plain_text of each).  by is the run that created the page, 0 for a page
\* that was there before the first run.
Page(runs, r) == [has |-> TRUE, rich_text |-> runs, by |-> r]
NoProp == [has |-> FALSE, rich_text |-> <<>>, by |-> 0]

\* A data source of n pages found by the first run.  Plain: page i carries
\* Canvas ID i.  Mixed: every second page is one the user entered by hand,
\* with an empty Canvas ID or none.
Prefilled(n, mixed) ==
    [i \in 1..n |->
        IF mixed /\ i % 4 = 2 THEN NoProp
        ELSE IF mixed /\ i % 4 = 0 THEN Page(<<>>, 0)
        ELSE Page(<<Str(i)>>, 0)]

StoreSizes == {0, 1, PageSize, PageSize + 1, MaxStore}

\* notion.data_sources.query(start_cursor=c, page_size=PageSize) on data
\* source s; the cursor is the number of pages already served
QueryPage(s, c) ==
    LET last == IF c + PageSize < Len(s) THEN c + PageSize ELSE Len(s)
    IN  [results     |-> SubSeq(s, c + 1, last),
         has_more    |-> last < Len(s),
         next_cursor |-> last]

\* lines 85-90 with the last page of each response left out
IdsOfResults_DropLast(results) ==
    { results[i].rich_text[1] :
        i \in { j \in 1..(Len(results) - 1) :
                  results[j].has /\ results[j].rich_text # <<>> } }

\* lines 85-90: the ids one response contributes
IdsOfResults(results) ==
    { results[i].rich_text[1] :
        i \in { j \in 1..Len(results) :
                  results[j].has /\ results[j].rich_text # <<>> } }

----------------------------------------------------------------------------
(* Log records (the logger calls that tell the branches apart) *)

Ev(kind, c, a, id) == [kind |-> kind, ci |-> c, ai |-> a, id |-> id]

Logged(r, e) == log' = [log EXCEPT ![r] = Append(@, e)]

----------------------------------------------------------------------------
Init ==
    /\ \E n \in StoreSizes, mixed \in BOOLEAN :
          /\ store = Prefilled(n, mixed)
          \* a data source of several pages comes with a short course list
          /\ source \in (IF n > 1 THEN ShortSources ELSE Sources)
    /\ clock = 0
    /\ pc = [r \in Runs |-> "idle"]
    /\ ids = [r \in Runs |-> {}]
    /\ cursor = [r \in Runs |-> 0]
    /\ batch = [r \in Runs |-> 0]
    /\ baseline = [r \in Runs |-> {}]
    /\ now = [r \in Runs |-> 0]
    /\ ci = [r \in Runs |-> 0]
    /\ ai = [r \in Runs |-> 0]
    /\ log = [r \in Runs |-> <<>>]

Finished(r) == pc[r] \in {"done", "crashed"}

\* The script is started (line 1 to 70): run r begins its baseline load.
Begin(r) ==
    /\ pc[r] = "idle"
    /\ pc' = [pc EXCEPT ![r] = "fetch"]
    /\ UNCHANGED <<store, clock, source, ids, cursor, batch, baseline, now, ci, ai,
                   log>>

\* Query that returns after the first response whatever has_more says
Query_OnePage(r) ==
    /\ pc[r] = "fetch"
    /\ LET resp == QueryPage(store, cursor[r])
       IN  /\ batch' = [batch EXCEPT ![r] = @ + 1]
           /\ ids' = [ids EXCEPT ![r] = @ \cup IdsOfResults(resp.results)]
           /\ Logged(r, Ev("query", 0, 0, ""))
           /\ pc' = [pc EXCEPT ![r] = "window"]
           /\ baseline' = [baseline EXCEPT ![r] = ids'[r]]
    /\ UNCHANGED <<store, clock, source, cursor, now, ci, ai>>

\* One turn of the while loop of fetch_existing_canvas_ids whose query
\* call returns (lines 72-96; on the last page lines 98-99 and 102).
Query(r) ==
    /\ pc[r] = "fetch"
    /\ LET resp == QueryPage(store, cursor[r])
       IN  /\ batch' = [batch EXCEPT ![r] = @ + 1]
           /\ ids' = [ids EXCEPT ![r] = @ \cup IdsOfResults(resp.results)]
           /\ Logged(r, Ev("query", 0, 0, ""))
           /\ IF ~resp.has_more
                 THEN /\ pc' = [pc EXCEPT ![r] = "window"]
                      /\ baseline' = [baseline EXCEPT ![r] = ids'[r]]
                      /\ UNCHANGED cursor
                 ELSE /\ cursor' = [cursor EXCEPT ![r] = resp.next_cursor]
                      /\ UNCHANGED <<pc, baseline>>
    /\ UNCHANGED <<store, clock, source, now, ci, ai>>

\* QueryFail with the exception swallowed: the pass goes on with what it has
QueryFail_Swallow(r) ==
    /\ pc[r] = "fetch"
    /\ batch' = [batch EXCEPT ![r] = @ + 1]
    /\ pc' = [pc EXCEPT ![r] = "window"]
    /\ baseline' = [baseline EXCEPT ![r] = ids[r]]
    /\ Logged(r, Ev("query-failed", 0, 0, ""))
    /\ UNCHANGED <<store, clock, source, ids, cursor, now, ci, ai>>

\* The query call raises: nothing catches it, the script ends (line 76).
QueryFail(r) ==
    /\ pc[r] = "fetch"
    /\ batch' = [batch EXCEPT ![r] = @ + 1]
    /\ pc' = [pc EXCEPT ![r] = "crashed"]
    /\ Logged(r, Ev("query-failed", 0, 0, ""))
    /\ UNCHANGED <<store, clock, source, ids, cursor, baseline, now, ci, ai>>

\* Lines 107-119: read the clock once, open the courses iterator.
Window(r) ==
    /\ pc[r] = "window"
    /\ \E t \in clock..MaxDrift :
          /\ clock' = t
          /\ now' = [now EXCEPT ![r] = t]
    /\ pc' = [pc EXCEPT ![r] = "courses"]
    /\ UNCHANGED <<store, source, ids, cursor, batch, baseline, ci, ai, log>>

week_out(r) == now[r] + WeekSeconds

\* line 157 with strict comparisons
InWindow_Exclusive(r, due_at) == now[r] < due_at /\ due_at < week_out(r)

\* line 157
InWindow(r, due_at) == now[r] <= due_at /\ due_at <= week_out(r)

\* line 125 with the test left out
Mapped_Always(course) == course.name \in CourseNames

\* line 125
Mapped(course) == course.name \in DOMAIN name_map

\* The courses iterator is exhausted: line 227.
EndCourses(r) ==
    /\ pc[r] = "courses"
    /\ ci[r] = Len(source)
    /\ pc' = [pc EXCEPT ![r] = "done"]
    /\ Logged(r, Ev("complete", 0, 0, ""))
    /\ UNCHANGED <<store, clock, source, ids, cursor, batch, baseline, now, ci, ai>>

\* Lines 122-127: the next course is not in name_map.
SkipCourse(r) ==
    /\ pc[r] = "courses"
    /\ ci[r] < Len(source)
    /\ ~Mapped(source[ci[r] + 1])
    /\ ci' = [ci EXCEPT ![r] = @ + 1]
    /\ Logged(r, Ev("course-skipped", ci[r] + 1, 0, ""))
    /\ UNCHANGED <<store, clock, source, pc, ids, cursor, batch, baseline, now, ai>>

\* Lines 122-137: the next course is mapped, its assignments are requested.
EnterCourse(r) ==
    /\ pc[r] = "courses"
    /\ ci[r] < Len(source)
    /\ Mapped(source[ci[r] + 1])
    /\ ci' = [ci EXCEPT ![r] = @ + 1]
    /\ ai' = [ai EXCEPT ![r] = 0]
    /\ pc' = [pc EXCEPT ![r] = "assignments"]
    /\ Logged(r, Ev("course", ci[r] + 1, 0, ""))
    /\ UNCHANGED <<store, clock, source, ids, cursor, batch, baseline, now>>

\* the assignment the inner loop takes next
Current(r) == source[ci[r]].assignments[ai[r] + 1]

HasNext(r) ==
    /\ pc[r] = "assignments"
    /\ ai[r] < Len(source[ci[r]].assignments)

\* lines 147-174 without the dedup test of line 169
SkipReason_NoDedup(r, a) ==
    IF ~a.due_at.has THEN "no-due-date"
    ELSE IF ~InWindow(r, ParseDue(a.due_at)) THEN "out-of-window"
    ELSE ""

\* Lines 147-174: why the assignment is passed over, "" when it is not
SkipReason(r, a) ==
    IF ~a.due_at.has THEN "no-due-date"
    ELSE IF ~InWindow(r, ParseDue(a.due_at)) THEN "out-of-window"
    ELSE IF Str(a.id) \in ids[r] THEN "duplicate"
    ELSE ""

\* The assignments iterator is exhausted: lines 221-225.
EndAssignments(r) ==
    /\ pc[r] = "assignments"
    /\ ai[r] = Len(source[ci[r]].assignments)
    /\ pc' = [pc EXCEPT ![r] = "courses"]
    /\ UNCHANGED <<store, clock, source, ids, cursor, batch, baseline, now, ci, ai,
                   log>>

\* Lines 139-174: one of the three continue branches.
SkipAssignment(r) ==
    /\ HasNext(r)
    /\ SkipReason(r, Current(r)) # ""
    /\ ai' = [ai EXCEPT ![r] = @ + 1]
    /\ Logged(r, Ev(SkipReason(r, Current(r)), ci[r], ai[r] + 1,
                    Str(Current(r).id)))
    /\ UNCHANGED <<store, clock, source, pc, ids, cursor, batch, baseline, now, ci>>

\* CreateOk without line 206
CreateOk_NoAdd(r) ==
    /\ HasNext(r)
    /\ SkipReason(r, Current(r)) = ""
    /\ LET canvas_id == Str(Current(r).id)
       IN  /\ store' = Append(store, Page(<<canvas_id>>, r))
           /\ Logged(r, Ev("created", ci[r], ai[r] + 1, canvas_id))
    /\ ai' = [ai EXCEPT ![r] = @ + 1]
    /\ UNCHANGED <<clock, source, pc, ids, cursor, batch, baseline, now, ci>>

\* Lines 139-212: the create call returns.
CreateOk(r) ==
    /\ HasNext(r)
    /\ SkipReason(r, Current(r)) = ""
    /\ LET canvas_id == Str(Current(r).id)
       IN  /\ store' = Append(store, Page(<<canvas_id>>, r))
           /\ ids' = [ids EXCEPT ![r] = @ \cup {canvas_id}]
           /\ Logged(r, Ev("created", ci[r], ai[r] + 1, canvas_id))
    /\ ai' = [ai EXCEPT ![r] = @ + 1]
    /\ UNCHANGED <<clock, source, pc, cursor, batch, baseline, now, ci>>

\* CreateFail without the try/except: the exception ends the script
CreateFail_Abort(r) ==
    /\ HasNext(r)
    /\ SkipReason(r, Current(r)) = ""
    /\ Logged(r, Ev("create-failed", ci[r], ai[r] + 1, Str(Current(r).id)))
    /\ ai' = [ai EXCEPT ![r] = @ + 1]
    /\ pc' = [pc EXCEPT ![r] = "crashed"]
    /\ UNCHANGED <<store, clock, source, ids, cursor, batch, baseline, now, ci>>

\* CreateFail with line 206 moved after the try statement
CreateFail_MarksSynced(r) ==
    /\ HasNext(r)
    /\ SkipReason(r, Current(r)) = ""
    /\ Logged(r, Ev("create-failed", ci[r], ai[r] + 1, Str(Current(r).id)))
    /\ ids' = [ids EXCEPT ![r] = @ \cup {Str(Current(r).id)}]
    /\ ai' = [ai EXCEPT ![r] = @ + 1]
    /\ UNCHANGED <<store, clock, source, pc, cursor, batch, baseline, now, ci>>

\* Lines 139-219: the create call raises, the except clause logs it.
CreateFail(r) ==
    /\ HasNext(r)
    /\ SkipReason(r, Current(r)) = ""
    /\ Logged(r, Ev("create-failed", ci[r], ai[r] + 1, Str(Current(r).id)))
    /\ ai' = [ai EXCEPT ![r] = @ + 1]
    /\ UNCHANGED <<store, clock, source, pc, ids, cursor, batch, baseline, now, ci>>

Step(r) ==
    \/ Query(r)
    \/ QueryFail(r)
    \/ Window(r)
    \/ EndCourses(r)
    \/ SkipCourse(r)
    \/ EnterCourse(r)
    \/ EndAssignments(r)
    \/ SkipAssignment(r)
    \/ CreateOk(r)
    \/ CreateFail(r)

\* Runs one after another: a run starts when every earlier one has ended.
BeginInTurn(r) ==
    /\ \A q \in Runs : q < r => Finished(q)
    /\ Begin(r)

Next == \E r \in Runs : BeginInTurn(r) \/ Step(r)

Spec == Init /\ [][Next]_vars

\* Two runs of the script started independently of each other (two cron
\* jobs, two machines): their steps interleave in any order.
Overlapping == {1, 2}

InitOverlap == Init /\ Len(source) <= 1 /\ Len(store) <= 1

NextOverlap == \E r \in Overlapping : Begin(r) \/ Step(r)

SpecOverlap == InitOverlap /\ [][NextOverlap]_vars

----------------------------------------------------------------------------
(* Vocabulary of the properties *)

\* the "Canvas ID" value of a page (spec section 6: the first text run)
HasCanvasId(p) == p.has /\ Len(p.rich_text) > 0
CanvasIdOf(p) == Head(p.rich_text)
RecordsWithId(s) == {i \in DOMAIN s : HasCanvasId(s[i])}
StoredIds(s) == {CanvasIdOf(s[i]) : i \in RecordsWithId(s)}

CreateKinds == {"created", "create-failed"}
At(r, kinds) == {i \in DOMAIN log[r] : log[r][i].kind \in kinds}
CreatedIds(r) == {log[r][i].id : i \in At(r, {"created"})}

\* run r has loaded its baseline and read the clock
Walking(r) == pc[r] \in {"courses", "assignments", "done"}

Positions ==
    {<<c, a>> : c \in 1..MaxCourses, a \in 1..MaxItems}
Exists(p) ==
    p[1] \in DOMAIN source /\ p[2] \in DOMAIN source[p[1]].assignments
Item(p) == source[p[1]].assignments[p[2]]
InNameMapping(c) == source[c].name \in {"Math", "Physics"}

\* position p comes before position q in enumeration order
Before(p, q) == p[1] < q[1] \/ (p[1] = q[1] /\ p[2] < q[2])

\* run r has handled the assignment at position p
Passed(r, p) ==
    /\ Walking(r)
    /\ \/ p[1] < ci[r]
       \/ p[1] = ci[r] /\ (pc[r] # "assignments" \/ p[2] <= ai[r])

\* existing_canvas_ids as it was when run r reached position p
IdsBefore(r, p) ==
    baseline[r] \cup
    {log[r][i].id : i \in {j \in At(r, {"created"}) :
                              Before(<<log[r][j].ci, log[r][j].ai>>, p)}}

\* run r issued a create call for the assignment at position p
CalledAt(r, p) ==
    \E i \in At(r, CreateKinds) : log[r][i].ci = p[1] /\ log[r][i].ai = p[2]

DueWithin(r, p) ==
    /\ Item(p).due_at.has
    /\ now[r] <= Item(p).due_at.secs
    /\ Item(p).due_at.secs <= now[r] + 7 * 86400

----------------------------------------------------------------------------
\* C1: runs executed one after another never leave two records with the
\* same Canvas ID in the data source, and one run never creates two records
\* for one id.
C1_NoDuplicateIds ==
    /\ Cardinality(StoredIds(store)) = Cardinality(RecordsWithId(store))
    /\ \A r \in Runs :
          Cardinality(CreatedIds(r)) = Cardinality(At(r, {"created"}))

\* a later run met, in its window, an id an earlier run had created and
\* passed it over as a duplicate
C1_Witness ==
    \E r \in Runs, q \in Runs :
        /\ q < r /\ pc[r] = "done"
        /\ \E i \in At(q, {"created"}), j \in At(r, {"duplicate"}) :
              log[q][i].id = log[r][j].id

\* C2 as stated: after a completed run, the next run over the same courses
\* and assignments issues no create call.
C2_SecondRunCreatesNothing ==
    \A r \in Runs :
        (r > 1 /\ pc[r - 1] = "done") => At(r, CreateKinds) = {}

\* C2 amended: after a completed run, the next run over the same courses and
\* assignments issues no create call for an id that was in the first run's id
\* set at its end; and it issues no create call at all when no create call
\* of the first run failed and every mapped assignment due within the second
\* run's window was due within the first run's.
C2_Idempotence ==
    \A r \in Runs :
        (r > 1 /\ pc[r - 1] = "done") =>
            /\ \A i \in At(r, CreateKinds) : log[r][i].id \notin ids[r - 1]
            /\ ( /\ Walking(r)
                 /\ At(r - 1, {"create-failed"}) = {}
                 /\ \A p \in Positions :
                       (Exists(p) /\ InNameMapping(p[1]) /\ DueWithin(r, p))
                           => DueWithin(r - 1, p) )
               => At(r, CreateKinds) = {}

\* two completed runs in a row, the first created records, the second met
\* one of them again and issued no create call
C2_Witness ==
    \E r \in Runs :
        /\ r > 1 /\ pc[r - 1] = "done" /\ pc[r] = "done"
        /\ At(r - 1, {"create-failed"}) = {}
        /\ At(r, CreateKinds) = {}
        /\ \E j \in At(r, {"duplicate"}) : log[r][j].id \in CreatedIds(r - 1)

\* C3 as stated: within one run, at most one create call is issued per id.
C3_OneCreateCallPerId ==
    \A r \in Runs : \A i, j \in At(r, CreateKinds) :
        log[r][i].id = log[r][j].id => i = j

\* C3 amended: within one run, a create call for an id is followed by
\* another create call for the same id only if it failed; so at most one
\* create call per id succeeds and none is issued after it.
C3_DedupWithinRun ==
    \A r \in Runs : \A i, j \in At(r, CreateKinds) :
        (i < j /\ log[r][i].id = log[r][j].id)
            => log[r][i].kind = "create-failed"

\* the same id came twice in one run, in the window and not in the
\* baseline: created the first time, passed over the second
C3_Witness ==
    \E r \in Runs :
        \E i \in At(r, {"created"}), j \in At(r, {"duplicate"}) :
            /\ i < j
            /\ log[r][i].id = log[r][j].id
            /\ log[r][i].id \notin baseline[r]

\* C4: a failed create call never ends the run: the run is not aborted, it
\* can always take its next step until it logs "Sync run complete", and every
\* assignment it has passed that was eligible when met (mapped course, due
\* within the window, id not in the set) had its create call issued.
C4_PartialFailureIsolation ==
    \A r \in Runs :
        At(r, {"create-failed"}) # {} =>
            /\ pc[r] # "crashed"
            /\ pc[r] = "done" \/ ENABLED Step(r)
            /\ \A p \in Positions :
                  ( /\ Exists(p) /\ Passed(r, p)
                    /\ InNameMapping(p[1])
                    /\ DueWithin(r, p)
                    /\ Str(Item(p).id) \notin IdsBefore(r, p) )
                  => CalledAt(r, p)

\* a completed run whose log shows a record created, then a create call
\* that failed, then another record created
C4_Witness ==
    \E r \in Runs :
        /\ pc[r] = "done"
        /\ \E i \in At(r, {"created"}), j \in At(r, {"create-failed"}),
              k \in At(r, {"created"}) : i < j /\ j < k

\* ceil(n / PageSize), and one call for an empty data source
Pages(n) == IF n = 0 THEN 1 ELSE (n + PageSize - 1) \div PageSize

\* C5: the loader makes ceil(N/100) query calls (one when N = 0), goes on
\* exactly while the responses say has_more, and returns the Canvas ID of
\* every record that has one.
C5_PaginationComplete ==
    \A r \in Runs :
        /\ pc[r] = "fetch" =>
              /\ cursor[r] = batch[r] * PageSize
              /\ batch[r] = 0 \/ cursor[r] < Len(store)
        /\ pc[r] = "window" =>
              /\ batch[r] = Pages(Len(store))
              /\ ids[r] = StoredIds(store)
              /\ baseline[r] = StoredIds(store)

\* 250 records, all with an id: 250 ids after exactly 3 calls
C5_Witness ==
    \E r \in Runs :
        /\ pc[r] = "window"
        /\ Len(store) = 250
        /\ batch[r] = 3
        /\ Cardinality(baseline[r]) = 250

\* C6: of a course whose name is not a key of name_map a run logs only that
\* it skipped it: its assignments are not requested, none of them is looked
\* at, and no create call is issued for it.
C6_MappingExclusivity ==
    \A r \in Runs : \A i \in DOMAIN log[r] :
        (log[r][i].ci > 0 /\ ~InNameMapping(log[r][i].ci))
            => log[r][i].kind = "course-skipped"

\* a completed run over a source with an unmapped course holding an
\* assignment due within the window whose id was never synced
C6_Witness ==
    \E r \in Runs, p \in Positions :
        /\ pc[r] = "done"
        /\ Exists(p) /\ ~InNameMapping(p[1])
        /\ DueWithin(r, p)
        /\ Str(Item(p).id) \notin ids[r]

\* C7: an assignment of a mapped course whose id is not in the set when it
\* is met gets a create call if and only if it has a due date d with
\* now <= d <= now + 7 days.
C7_WindowBoundary ==
    \A r \in Runs : \A p \in Positions :
        ( /\ Exists(p) /\ Passed(r, p)
          /\ InNameMapping(p[1])
          /\ Str(Item(p).id) \notin IdsBefore(r, p) )
        => (CalledAt(r, p) <=> DueWithin(r, p))

\* run r met, with its id not in the set, an assignment of a mapped course
\* due d seconds after its now, and did (or did not) issue the create call
Met(r, d, called) ==
    \E p \in Positions :
        /\ Exists(p) /\ Passed(r, p) /\ InNameMapping(p[1])
        /\ Str(Item(p).id) \notin IdsBefore(r, p)
        /\ Item(p).due_at.has /\ Item(p).due_at.secs = now[r] + d
        /\ CalledAt(r, p) = called

\* the four boundary cases and the assignment without a due date
C7_Witness ==
    /\ \E r \in Runs : Met(r, 0, TRUE)
    /\ \E r \in Runs : Met(r, 7 * 86400, TRUE)
    /\ \E r \in Runs : Met(r, -1, FALSE)
    /\ \E r \in Runs : Met(r, 7 * 86400 + 1, FALSE)
    /\ \E r \in Runs, p \in Positions :
          /\ Exists(p) /\ Passed(r, p) /\ InNameMapping(p[1])
          /\ ~Item(p).due_at.has /\ ~CalledAt(r, p)

\* C8: a run one of whose query calls failed has ended, has taken no course
\* from the source and issued no create call; a run that walks the courses
\* had no query call fail.
C8_FatalBaselineFailure ==
    \A r \in Runs :
        /\ At(r, {"query-failed"}) # {} =>
              /\ pc[r] = "crashed"
              /\ ci[r] = 0
              /\ At(r, CreateKinds \cup {"course", "course-skipped"}) = {}
              /\ \A i \in DOMAIN store : store[i].by # r
        /\ pc[r] \in {"window", "courses", "assignments", "done"} =>
              At(r, {"query-failed"}) = {}

\* a run that ended on a failed query call after a first page of ids had
\* been read, with a mapped assignment waiting in the source
C8_Witness ==
    \E r \in Runs :
        /\ pc[r] = "crashed"
        /\ ids[r] # {}
        /\ batch[r] > 1
        /\ \E p \in Positions : Exists(p) /\ InNameMapping(p[1])

\* C10: once the baseline is loaded the id set is the baseline united with
\* the ids of the create calls that succeeded in this run; no step removes
\* an id from it, and only a successful create call changes it.
C10_IdentifierSet ==
    [][ \A r \in Runs :
          /\ Walking(r)' => ids'[r] = baseline'[r] \cup CreatedIds(r)'
          /\ Walking(r) => ids[r] \subseteq ids'[r]
          /\ (Walking(r) /\ ids'[r] # ids[r]) =>
                /\ Len(log'[r]) = Len(log[r]) + 1
                /\ log'[r][Len(log'[r])].kind = "created" ]_vars

\* a run that has a failed create call for an id it does not hold, a
\* created id, and assignments passed over, in its log
C10_Witness ==
    \E r \in Runs :
        /\ Walking(r)
        /\ \E i \in At(r, {"create-failed"}) : log[r][i].id \notin ids[r]
        /\ At(r, {"created"}) # {}
        /\ At(r, {"no-due-date", "out-of-window", "duplicate"}) # {}

\* C9: when two runs overlap the dedup guarantee is lost, and only by the
\* overlap: two records with the same Canvas ID are always the work of two
\* different runs, each of which loaded a baseline without that id and
\* created its record after the other had loaded its own.
C9_DuplicatesOnlyByOverlap ==
    \A i, j \in RecordsWithId(store) :
        (i # j /\ CanvasIdOf(store[i]) = CanvasIdOf(store[j])) =>
            /\ store[i].by # 0 /\ store[j].by # 0
            /\ store[i].by # store[j].by
            /\ CanvasIdOf(store[i]) \notin baseline[store[i].by]
            /\ CanvasIdOf(store[i]) \notin baseline[store[j].by]

\* two overlapping runs have both completed and the data source holds two
\* records with the same Canvas ID
C9_Witness ==
    /\ \A r \in Overlapping : pc[r] = "done"
    /\ \E i, j \in RecordsWithId(store) :
          i # j /\ CanvasIdOf(store[i]) = CanvasIdOf(store[j])

====
